---- MODULE Spec2Model ----
(***************************************************************************)
(* A model of the certifier application:                                   *)
(*   - the generation route  src/app/api/generate/route.ts  (POST), as a   *)
(*     state machine of one request: validation, the per-item loop         *)
(*     (render, convert, collect), the sealing of the archive and the      *)
(*     delivery (download, or upload + email);                             *)
(*   - the data transformation of  src/app/page.tsx  (handleGenerate):     *)
(*     the mapping of rows and the grouping of rows into root contexts.    *)
(*   - the analysis route (POST /api/analyze): the two scans of the        *)
(*     template's text for field and loop markers;                         *)
(*   - the page  src/app/page.tsx  (Home) as a state machine of its        *)
(*     handlers and effects, with the analysis fetches and the data file   *)
(*     parses in flight;                                                   *)
(*   - two generation requests served side by side, with their temporary   *)
(*     directories and converter processes.                                *)
(* Strings are sequences of one-character strings, so that sanitising,     *)
(* the search for '@' and the test for integer-like property keys are      *)
(* computed as the code computes them.  A JavaScript object is the         *)
(* sequence of its own properties <<key, value>> in property order.        *)
(***************************************************************************)
EXTENDS Integers, Sequences, FiniteSets, TLC

\* ------------------------------------------------------------------ bounds
MaxRows == 3
MaxCsvRows == 3

\* ----------------------------------------------------------------- strings
LowerChars == {"a","b","c","d","e","f","g","h","i","j","k","l","m",
               "n","o","p","q","r","s","t","u","v","w","x","y","z"}
UpperChars == {"A","B","C","D","E","F","G","H","I","J","K","L","M",
               "N","O","P","Q","R","S","T","U","V","W","X","Y","Z"}
DigitChars == {"0","1","2","3","4","5","6","7","8","9"}

DigitSeq == <<"0","1","2","3","4","5","6","7","8","9">>

DigitValue(c) == (CHOOSE n \in 1..10 : DigitSeq[n] = c) - 1

RECURSIVE ToDecimal(_)
\* `${n}`: the decimal digits of a natural number.
ToDecimal(n) ==
    IF n < 10 THEN <<DigitSeq[n + 1]>>
    ELSE ToDecimal(n \div 10) \o <<DigitSeq[(n % 10) + 1]>>

RECURSIVE NumericValue(_)
\* The number a string of digits denotes.
NumericValue(s) ==
    IF s = <<>> THEN 0
    ELSE 10 * NumericValue(SubSeq(s, 1, Len(s) - 1)) + DigitValue(s[Len(s)])

\* String.prototype.includes for a one-character needle.
Includes(s, c) == \E n \in 1..Len(s) : s[n] = c

\* ------------------------------------------------------- JavaScript values
Str(s) == [t |-> "string", s |-> s]
Undefined == [t |-> "undefined"]
NativeFunction == [t |-> "function"]
PrototypeObject == [t |-> "object"]
Arr(items) == [t |-> "array", items |-> items]

\* ToBoolean: the empty string and undefined are falsy; objects, arrays and
\* functions are truthy.
Truthy(v) == IF v.t = "string" THEN v.s # <<>> ELSE v.t # "undefined"

\* v || "" (route.ts:53, page.tsx:124)
OrEmpty(v) == IF Truthy(v) THEN v ELSE Str(<<>>)

K_proto == <<"_","_","p","r","o","t","o","_","_">>
K_constructor == <<"c","o","n","s","t","r","u","c","t","o","r">>
K_toString == <<"t","o","S","t","r","i","n","g">>
K_undefined == <<"u","n","d","e","f","i","n","e","d">>
K_full_name == <<"f","u","l","l","_","n","a","m","e">>
K_name == <<"n","a","m","e">>
K_items == <<"i","t","e","m","s">>
K_id == <<"i","d">>
K_Name == <<"N","a","m","e">>
K_course == <<"c","o","u","r","s","e">>

\* The property names every object literal {} inherits from Object.prototype
\* (those the model's inputs can spell).
InheritedMethods == {K_constructor, K_toString}

\* An integer-like property key (an array index): a canonical decimal numeral.
IsArrayIndex(k) ==
    /\ Len(k) > 0
    /\ \A n \in 1..Len(k) : k[n] \in DigitChars
    /\ (Len(k) = 1 \/ k[1] # "0")

HasOwn(o, k) == \E n \in 1..Len(o) : o[n][1] = k

OwnIndex(o, k) == CHOOSE n \in 1..Len(o) : o[n][1] = k

\* o[k] on an object literal: the own property, else what Object.prototype
\* supplies, else undefined.
Get(o, k) ==
    IF HasOwn(o, k) THEN o[OwnIndex(o, k)][2]
    ELSE IF k \in InheritedMethods THEN NativeFunction
    ELSE IF k = K_proto THEN PrototypeObject
    ELSE Undefined

\* Where a new own property k goes: integer-like keys come first, in
\* ascending numeric order; all other keys follow in insertion order.
InsertAt(o, k) ==
    IF ~IsArrayIndex(k) THEN Len(o) + 1
    ELSE LET later == {n \in 1..Len(o) :
                          \/ ~IsArrayIndex(o[n][1])
                          \/ NumericValue(o[n][1]) > NumericValue(k)}
         IN  IF later = {} THEN Len(o) + 1
             ELSE CHOOSE n \in later : \A m \in later : n <= m

\* o[k] = v on an object literal.  Assigning to __proto__ invokes the
\* inherited setter and creates no own property.
Set(o, k, v) ==
    IF k = K_proto THEN o
    ELSE IF HasOwn(o, k) THEN [o EXCEPT ![OwnIndex(o, k)] = <<k, v>>]
    ELSE LET at == InsertAt(o, k)
         IN  SubSeq(o, 1, at - 1) \o << <<k, v>> >> \o SubSeq(o, at, Len(o))

Keys(o) == [n \in 1..Len(o) |-> o[n][1]]
Values(o) == [n \in 1..Len(o) |-> o[n][2]]
KeySet(o) == {o[n][1] : n \in 1..Len(o)}

RECURSIVE SeqsUpTo(_, _)
\* All sequences over S of length at most n.
SeqsUpTo(S, n) ==
    IF n = 0 THEN {<<>>}
    ELSE LET shorter == SeqsUpTo(S, n - 1)
         IN  shorter \cup {Append(q, e) : q \in {p \in shorter : Len(p) = n - 1}, e \in S}

\* ------------------------------------------------- the generation request
VARIABLES
    req,        \* the form data of the request (route.ts:19-24)
    pc,         \* where POST stands
    idx,        \* the loop counter i of route.ts:109, 1-based
    result,     \* per context: pending, ok, no_pdf, bind_throw, exec_throw
    tempDir,    \* none | exists | removed
    files,      \* the per-item temporary files present in tempDir
    finalZip,   \* the JSZip under construction: <<name, context index>> entries
    content,    \* the generated archive (route.ts:114)
    env,        \* process.env as read at route.ts:127-132, or unread
    uploads,    \* PutObject attempts
    sends,      \* resend.emails.send attempts
    sentFrom,   \* the from address of the last send
    resp,       \* the response returned
    stored,     \* the object the upload put in the bucket (route.ts:160)
    link,       \* whether the presigned URL was minted (route.ts:169)
    sendResult, \* what resend.emails.send answered (route.ts:180, 193)
    respBody    \* body and headers of a binary response (route.ts:208)

\* --------------------------------------------- the page's transformation
VARIABLES
    csvData,          \* page.tsx:16
    mapping,          \* page.tsx:18
    enableGrouping,   \* page.tsx:21
    groupByCol,       \* page.tsx:22
    docxLoops,        \* page.tsx:13
    hpc,              \* where handleGenerate stands
    mappedData,       \* page.tsx:121
    finalData         \* page.tsx:129, or what the catch of page.tsx:181 saw

\* ------------------------------------------------- the analysis request
VARIABLES
    template,   \* the uploaded document, as the markers and words of its text
    text,       \* doc.getFullText() (analyze route, part_001:64)
    apc,        \* where the analyze POST stands
    analysis    \* the response of the analyze route

\* ------------------------------------------------------ the page's state
VARIABLES
    docxFile,         \* page.tsx:10: 0 (null) or the document of the File
    csvFile,          \* page.tsx:11: 0 (null) or the data file
    docxPlaceholders, \* page.tsx:12
    csvHeaders,       \* page.tsx:15
    deliveryMethod,   \* page.tsx:25
    email,            \* page.tsx:26
    analyzing,        \* page.tsx:29
    generating,       \* page.tsx:30
    staleFetches,     \* per document: the fetches of page.tsx:46 in flight for
                      \* a File that is no longer the selected one
    currentFetch,     \* the fetch for the selected File: none, pending, ok, failed
    parses            \* the Papa.parse calls whose callback has not run yet

\* -------------------------------------------- requests served concurrently
VARIABLES
    runState,   \* per request: start, run, done or failed
    items,      \* per request: the number of contexts in its data
    tempDirOf,  \* per request: the directory mkdtemp gave it (route.ts:42)
    nextItem,   \* per request: the loop counter of route.ts:109, 1-based
    inflight,   \* the converter processes running (route.ts:81)
    dirs        \* the directories that exist under os.tmpdir()

deliveryVars == <<stored, link, sendResult, respBody>>
serverVars == <<req, pc, idx, result, tempDir, files, finalZip, content, env,
                uploads, sends, sentFrom, resp, deliveryVars>>
pageVars == <<csvData, mapping, enableGrouping, groupByCol, docxLoops, hpc,
              mappedData, finalData>>
analyzeVars == <<template, text, apc, analysis>>
uiVars == <<docxFile, csvFile, docxPlaceholders, csvHeaders, deliveryMethod,
            email, analyzing, generating, staleFetches, currentFetch, parses>>
poolVars == <<runState, items, tempDirOf, nextItem, inflight, dirs>>
vars == <<serverVars, pageVars, analyzeVars, uiVars, poolVars>>

\* What a step of the generation route, of handleGenerate and of the
\* analysis route leaves alone.
outsideServer == <<pageVars, analyzeVars, uiVars, poolVars>>
outsideTransform == <<serverVars, analyzeVars, uiVars, poolVars>>
outsideAnalyze == <<serverVars, pageVars, uiVars, poolVars>>
outsidePage == <<serverVars, analyzeVars, poolVars, hpc, mappedData, finalData>>
outsidePool == <<serverVars, pageVars, analyzeVars, uiVars>>

\* fileName's sanitiser: .replace(/[^a-z0-9]/gi, '_')  (route.ts:90, 92)
Sanitize(s) ==
    [n \in 1..Len(s) |->
        IF s[n] \in LowerChars \cup UpperChars \cup DigitChars THEN s[n] ELSE "_"]

DotPdf == <<".","p","d","f">>
CertificatePrefix == <<"c","e","r","t","i","f","i","c","a","t","e","_">>

RECURSIVE MapEntries(_, _, _)
\* for (const [placeholder, csvColumn] of Object.entries(mapping))
\*     renderData[placeholder] = row[csvColumn] || "";
MapEntries(row, entries, acc) ==
    IF entries = <<>> THEN acc
    ELSE MapEntries(row, Tail(entries),
                    Set(acc, Head(entries)[1], OrEmpty(Get(row, Head(entries)[2].s))))

\* route.ts:47-55: the row itself when the mapping is empty.
PrepareRenderData(row, m) ==
    IF Len(m) > 0 THEN MapEntries(row, m, <<>>) ELSE row

\* route.ts:88-93; index is the 1-based position (index + 1 of the code).
FileName(renderData, index) ==
    IF Truthy(Get(renderData, K_full_name))
    THEN Sanitize(Get(renderData, K_full_name).s) \o DotPdf
    ELSE IF Truthy(Get(renderData, K_name))
    THEN Sanitize(Get(renderData, K_name).s) \o DotPdf
    ELSE CertificatePrefix \o ToDecimal(index) \o DotPdf

\* JSZip's file(name, data): the files table has no prototype; an existing
\* name keeps its place and takes the new data.
ZipFile(zip, name, data) ==
    IF HasOwn(zip, name) THEN [zip EXCEPT ![OwnIndex(zip, name)] = <<name, data>>]
    ELSE Append(zip, <<name, data>>)

\* The check without the email-service key.
ConfigMissingNoResend(e) ==
    \/ ~e.R2_ACCOUNT_ID
    \/ ~e.R2_ACCESS_KEY_ID
    \/ ~e.R2_SECRET_ACCESS_KEY
    \/ ~e.R2_BUCKET_NAME

\* route.ts:142
ConfigMissing(e) ==
    \/ ~e.R2_ACCOUNT_ID
    \/ ~e.R2_ACCESS_KEY_ID
    \/ ~e.R2_SECRET_ACCESS_KEY
    \/ ~e.R2_BUCKET_NAME
    \/ ~e.RESEND_API_KEY

\* The sender without its fallback.
SenderEmailNoDefault(e) ==
    IF e.SENDER_EMAIL THEN "SENDER_EMAIL" ELSE "undefined"

\* route.ts:132
SenderEmail(e) ==
    IF e.SENDER_EMAIL THEN "SENDER_EMAIL" ELSE "onboarding@resend.dev"

\* The contexts a request may carry.
Contexts == {
    << <<K_full_name, Str(<<"a"," ","b">>)>> >>,
    << <<K_full_name, Str(<<>>)>>, <<K_name, Str(<<"a","_","b">>)>> >>,
    << <<K_Name, Str(<<"a","b">>)>> >>,
    <<>> }

RequestMappings == { <<>>, << <<K_full_name, Str(K_Name)>> >> }

Emails == { <<>>, <<"b">>, <<"a","@","b">> }

Envs == [read : {TRUE}, R2_ACCOUNT_ID : BOOLEAN, R2_ACCESS_KEY_ID : BOOLEAN,
         R2_SECRET_ACCESS_KEY : BOOLEAN, R2_BUCKET_NAME : BOOLEAN,
         RESEND_API_KEY : BOOLEAN, SENDER_EMAIL : BOOLEAN]

\* process.env before route.ts:127 has read it.
UnreadEnv ==
    [read |-> FALSE, R2_ACCOUNT_ID |-> FALSE, R2_ACCESS_KEY_ID |-> FALSE,
     R2_SECRET_ACCESS_KEY |-> FALSE, R2_BUCKET_NAME |-> FALSE,
     RESEND_API_KEY |-> FALSE, SENDER_EMAIL |-> FALSE]

Requests ==
    [form : {"missing", "malformed", "ok"},
     data : SeqsUpTo(Contexts, MaxRows),
     mapping : RequestMappings,
     deliveryMethod : {"download", "email"},
     email : Emails]

NothingStored == [present |-> FALSE, body |-> <<>>]
NoBody == [body |-> <<>>, contentType |-> "none", disposition |-> "none"]

\* The branch taken for every directive.
EmailDeliveryAlways(r) == TRUE

\* route.ts:33, 124: deliveryMethod === 'email'
EmailDelivery(r) == r.deliveryMethod = "email"

\* route.ts:208-213
DownloadResponse(c) ==
    [body |-> c, contentType |-> "application/zip",
     disposition |-> "attachment; filename=\"certificates.zip\""]

\* The answer that ignores the service's error.
SendResponseIgnoringError(outcome) == "email_sent_200"

\* route.ts:193-199
SendResponse(outcome) ==
    IF outcome = "error" THEN "email_failed_500" ELSE "email_sent_200"

ServerInit ==
    /\ req \in Requests
    /\ pc = "start"
    /\ idx = 0
    /\ result = [n \in 1..Len(req.data) |-> "pending"]
    /\ tempDir = "none"
    /\ files = {}
    /\ finalZip = <<>>
    /\ content = <<>>
    /\ env = UnreadEnv
    /\ uploads = 0
    /\ sends = 0
    /\ sentFrom = "nobody"
    /\ resp = "none"
    /\ stored = NothingStored
    /\ link = FALSE
    /\ sendResult = "none"
    /\ respBody = NoBody

File(n, ext) == [item |-> n, ext |-> ext]

\* route.ts:216-222: the outer catch.
Catch ==
    /\ pc' = "done"
    /\ resp' = "failed_500"

\* route.ts:26-31
MissingFields ==
    /\ pc = "start"
    /\ req.form = "missing"
    /\ pc' = "done"
    /\ resp' = "missing_fields_400"
    /\ UNCHANGED outsideServer
    /\ UNCHANGED deliveryVars
    /\ UNCHANGED <<req, idx, result, tempDir, files, finalZip, content, env,
                   uploads, sends, sentFrom>>

\* route.ts:33-35
EmailRequired ==
    /\ pc = "start"
    /\ req.form # "missing"
    /\ EmailDelivery(req) /\ req.email = <<>>
    /\ pc' = "done"
    /\ resp' = "email_required_400"
    /\ UNCHANGED outsideServer
    /\ UNCHANGED deliveryVars
    /\ UNCHANGED <<req, idx, result, tempDir, files, finalZip, content, env,
                   uploads, sends, sentFrom>>

\* route.ts:38-39: JSON.parse throws on a malformed data or mapping field.
ParseThrows ==
    /\ pc = "start"
    /\ req.form = "malformed"
    /\ ~(EmailDelivery(req) /\ req.email = <<>>)
    /\ Catch
    /\ UNCHANGED outsideServer
    /\ UNCHANGED deliveryVars
    /\ UNCHANGED <<req, idx, result, tempDir, files, finalZip, content, env,
                   uploads, sends, sentFrom>>

\* route.ts:37-42 and the loop's entry at 109
Begin ==
    /\ pc = "start"
    /\ req.form = "ok"
    /\ ~(EmailDelivery(req) /\ req.email = <<>>)
    /\ tempDir' = "exists"
    /\ idx' = 1
    /\ pc' = IF Len(req.data) >= 1 THEN "item" ELSE "seal"
    /\ UNCHANGED outsideServer
    /\ UNCHANGED deliveryVars
    /\ UNCHANGED <<req, result, files, finalZip, content, env, uploads, sends,
                   sentFrom, resp>>

\* route.ts:46-75: bind the context and write the temporary document.
Render ==
    /\ pc = "item"
    /\ files' = files \cup {File(idx, "docx")}
    /\ pc' = "converting"
    /\ UNCHANGED outsideServer
    /\ UNCHANGED deliveryVars
    /\ UNCHANGED <<req, idx, result, tempDir, finalZip, content, env, uploads,
                   sends, sentFrom, resp>>

\* route.ts:64: doc.render throws; nothing in processItem or the loop catches.
RenderThrows ==
    /\ pc = "item"
    /\ result' = [result EXCEPT ![idx] = "bind_throw"]
    /\ Catch
    /\ UNCHANGED outsideServer
    /\ UNCHANGED deliveryVars
    /\ UNCHANGED <<req, idx, tempDir, files, finalZip, content, env, uploads,
                   sends, sentFrom>>

\* route.ts:80-81: the converter exits normally, with or without an output.
Convert ==
    /\ pc = "converting"
    /\ \E wrote \in BOOLEAN :
          files' = IF wrote THEN files \cup {File(idx, "pdf")} ELSE files
    /\ pc' = "collect"
    /\ UNCHANGED outsideServer
    /\ UNCHANGED deliveryVars
    /\ UNCHANGED <<req, idx, result, tempDir, finalZip, content, env, uploads,
                   sends, sentFrom, resp>>

\* route.ts:81: the converter exits with an error; execAsync rejects.
ConvertThrows ==
    /\ pc = "converting"
    /\ result' = [result EXCEPT ![idx] = "exec_throw"]
    /\ Catch
    /\ UNCHANGED outsideServer
    /\ UNCHANGED deliveryVars
    /\ UNCHANGED <<req, idx, tempDir, files, finalZip, content, env, uploads,
                   sends, sentFrom>>

\* route.ts:83-105 and the loop's step at 109: read the output, add it to
\* the archive, remove both temporary files, go on to the next context.
Collect ==
    /\ pc = "collect"
    /\ IF File(idx, "pdf") \in files
       THEN /\ finalZip' = ZipFile(finalZip,
                                   FileName(PrepareRenderData(req.data[idx], req.mapping), idx),
                                   idx)
            /\ result' = [result EXCEPT ![idx] = "ok"]
       ELSE /\ finalZip' = finalZip
            /\ result' = [result EXCEPT ![idx] = "no_pdf"]
    /\ files' = files \ {File(idx, "docx"), File(idx, "pdf")}
    /\ idx' = idx + 1
    /\ pc' = IF idx + 1 <= Len(req.data) THEN "item" ELSE "seal"
    /\ UNCHANGED outsideServer
    /\ UNCHANGED deliveryVars
    /\ UNCHANGED <<req, tempDir, content, env, uploads, sends, sentFrom, resp>>

\* route.ts:113-120
Seal ==
    /\ pc = "seal"
    /\ content' = finalZip
    /\ tempDir' = "removed"
    /\ files' = {}
    /\ pc' = "deliver"
    /\ UNCHANGED outsideServer
    /\ UNCHANGED deliveryVars
    /\ UNCHANGED <<req, idx, result, finalZip, env, uploads, sends, sentFrom, resp>>

\* route.ts:206-214
Download ==
    /\ pc = "deliver"
    /\ ~EmailDelivery(req)
    /\ pc' = "done"
    /\ resp' = "zip_200"
    /\ respBody' = DownloadResponse(content)
    /\ UNCHANGED outsideServer
    /\ UNCHANGED <<stored, link, sendResult>>
    /\ UNCHANGED <<req, idx, result, tempDir, files, finalZip, content, env,
                   uploads, sends, sentFrom>>

\* route.ts:124-145
CheckConfig ==
    /\ pc = "deliver"
    /\ EmailDelivery(req)
    /\ \E e \in Envs :
          /\ env' = e
          /\ IF ConfigMissing(e)
             THEN pc' = "done" /\ resp' = "config_500"
             ELSE pc' = "upload" /\ resp' = resp
    /\ UNCHANGED outsideServer
    /\ UNCHANGED deliveryVars
    /\ UNCHANGED <<req, idx, result, tempDir, files, finalZip, content, uploads,
                   sends, sentFrom>>

\* route.ts:148-166
Upload ==
    /\ pc = "upload"
    /\ uploads' = uploads + 1
    /\ stored' = [present |-> TRUE, body |-> content]
    /\ pc' = "presign"
    /\ UNCHANGED outsideServer
    /\ UNCHANGED <<link, sendResult, respBody>>
    /\ UNCHANGED <<req, idx, result, tempDir, files, finalZip, content, env,
                   sends, sentFrom, resp>>

\* route.ts:160, 201-204: the upload rejects; rethrown to the outer catch.
UploadThrows ==
    /\ pc = "upload"
    /\ uploads' = uploads + 1
    /\ Catch
    /\ UNCHANGED outsideServer
    /\ UNCHANGED deliveryVars
    /\ UNCHANGED <<req, idx, result, tempDir, files, finalZip, content, env,
                   sends, sentFrom>>

\* route.ts:168-174
Presign ==
    /\ pc = "presign"
    /\ link' = TRUE
    /\ pc' = "send"
    /\ UNCHANGED outsideServer
    /\ UNCHANGED <<stored, sendResult, respBody>>
    /\ UNCHANGED <<req, idx, result, tempDir, files, finalZip, content, env,
                   uploads, sends, sentFrom, resp>>

\* route.ts:169, 201-204: getSignedUrl rejects.
PresignThrows ==
    /\ pc = "presign"
    /\ Catch
    /\ UNCHANGED outsideServer
    /\ UNCHANGED deliveryVars
    /\ UNCHANGED <<req, idx, result, tempDir, files, finalZip, content, env,
                   uploads, sends, sentFrom>>

\* route.ts:176-199
Send ==
    /\ pc = "send"
    /\ sends' = sends + 1
    /\ sentFrom' = SenderEmail(env)
    /\ pc' = "done"
    /\ \E outcome \in {"ok", "error"} :
          /\ sendResult' = outcome
          /\ resp' = SendResponse(outcome)
    /\ UNCHANGED outsideServer
    /\ UNCHANGED <<stored, link, respBody>>
    /\ UNCHANGED <<req, idx, result, tempDir, files, finalZip, content, env,
                   uploads>>

\* route.ts:180, 201-204: the send itself rejects.
SendThrows ==
    /\ pc = "send"
    /\ sends' = sends + 1
    /\ sentFrom' = SenderEmail(env)
    /\ sendResult' = "threw"
    /\ Catch
    /\ UNCHANGED outsideServer
    /\ UNCHANGED <<stored, link, respBody>>
    /\ UNCHANGED <<req, idx, result, tempDir, files, finalZip, content, env,
                   uploads>>

\* No analysis request while another part is examined.
NoAnalysis == [status |-> 0, placeholders |-> <<>>, loops |-> <<>>]

AnalyzeIdle ==
    /\ template = [file |-> FALSE, wellFormed |-> FALSE, tokens |-> <<>>]
    /\ text = <<>>
    /\ apc = "idle"
    /\ analysis = NoAnalysis

\* The pair of requests that C17's specification runs side by side.
Clients == {1, 2}

\* No concurrent requests while another part is examined.
PoolIdle ==
    /\ runState = [r \in Clients |-> "done"]
    /\ items = [r \in Clients |-> 0]
    /\ tempDirOf = [r \in Clients |-> "none"]
    /\ nextItem = [r \in Clients |-> 0]
    /\ inflight = {}
    /\ dirs = {}

\* page.tsx:10-31: the state of the page as mounted.
UiIdle ==
    /\ docxFile = 0
    /\ csvFile = 0
    /\ docxPlaceholders = <<>>
    /\ csvHeaders = <<>>
    /\ deliveryMethod = "download"
    /\ email = <<>>
    /\ analyzing = FALSE
    /\ generating = FALSE
    /\ staleFetches = [d \in 1..2 |-> 0]
    /\ currentFetch = "none"
    /\ parses = {}

PageIdle ==
    /\ csvData = <<>>
    /\ mapping = <<>>
    /\ enableGrouping = FALSE
    /\ groupByCol = <<>>
    /\ docxLoops = <<>>
    /\ hpc = "idle"
    /\ mappedData = <<>>
    /\ finalData = <<>>

Init == ServerInit /\ PageIdle /\ AnalyzeIdle /\ UiIdle /\ PoolIdle

Next ==
    \/ MissingFields
    \/ EmailRequired
    \/ ParseThrows
    \/ Begin
    \/ Render
    \/ RenderThrows
    \/ Convert
    \/ ConvertThrows
    \/ Collect
    \/ Seal
    \/ Download
    \/ CheckConfig
    \/ Upload
    \/ UploadThrows
    \/ Presign
    \/ PresignThrows
    \/ Send
    \/ SendThrows

Spec == Init /\ [][Next]_vars

\* ------------------------------------------------------ the page's data
\* page.tsx:121-127: one mapped row.
mapRow(row, m) == MapEntries(row, m, <<>>)

\* The property key a value used as a key becomes (ToPropertyKey).
ToPropertyKey(v) == IF v.t = "string" THEN v.s ELSE K_undefined

\* page.tsx:135-137 for one row: create the group when groups[groupKey] is
\* falsy, then push; the push throws when what groups[groupKey] finds is no
\* array.
GroupPush(groups, groupKey, item) ==
    LET g == IF ~Truthy(Get(groups, groupKey))
             THEN Set(groups, groupKey, Arr(<<>>))
             ELSE groups
        found == Get(g, groupKey)
    IN  IF found.t = "array"
        THEN [thrown |-> FALSE,
              groups |-> Set(g, groupKey, Arr(Append(found.items, item)))]
        ELSE [thrown |-> TRUE, groups |-> g]

RECURSIVE GroupRows(_, _, _, _, _)
\* page.tsx:132-138: csvData.forEach over the rows from position n.
GroupRows(rows, mapped, col, n, groups) ==
    IF n > Len(rows) THEN [thrown |-> FALSE, groups |-> groups]
    ELSE LET step == GroupPush(groups, ToPropertyKey(Get(rows[n], col)), mapped[n])
         IN  IF step.thrown THEN step
             ELSE GroupRows(rows, mapped, col, n + 1, step.groups)

RECURSIVE SetLoops(_, _, _)
\* page.tsx:142-144: docxLoops.forEach(loopName => rootItem[loopName] = groupItems)
SetLoops(rootItem, loops, groupItems) ==
    IF loops = <<>> THEN rootItem
    ELSE SetLoops(Set(rootItem, Head(loops), Arr(groupItems)), Tail(loops), groupItems)

\* page.tsx:140-146: one root context per value of groups, in property order.
RootContexts(groups, loops) ==
    [n \in 1..Len(groups) |->
        SetLoops(groups[n][2].items[1], loops, groups[n][2].items)]

\* page.tsx:131
GroupingApplies == enableGrouping /\ groupByCol # <<>> /\ Len(docxLoops) > 0

\* page.tsx:189-190, 390: what enables the button (a template and a data
\* file being loaded).
ButtonEnabled ==
    /\ Len(mapping) > 0
    /\ (~enableGrouping \/ groupByCol # <<>>)

CsvRows == {
    << <<K_id, Str(<<"2">>)>>, <<K_Name, Str(<<"A">>)>> >>,
    << <<K_id, Str(<<"1">>)>>, <<K_Name, Str(<<"A">>)>> >>,
    << <<K_id, Str(<<"1">>)>>, <<K_Name, Str(<<"B">>)>> >>,
    << <<K_id, Str(<<"x">>)>>, <<K_Name, Str(<<>>)>> >>,
    << <<K_id, Str(K_constructor)>>, <<K_Name, Str(<<"B">>)>> >>,
    << <<K_Name, Str(<<"A">>)>> >> }

PageMappings == {
    << <<K_name, Str(K_Name)>>, <<K_course, Str(<<>>)>> >>,
    << <<K_name, Str(K_id)>>, <<K_course, Str(K_course)>> >>,
    << <<K_proto, Str(K_Name)>>, <<K_name, Str(K_id)>> >>,
    << <<K_name, Str(K_constructor)>> >> }

LoopLists == { <<>>, <<K_items>>, <<K_items, K_name>> }

PageInit ==
    /\ csvData \in SeqsUpTo(CsvRows, MaxCsvRows)
    /\ mapping \in PageMappings
    /\ enableGrouping \in BOOLEAN
    /\ groupByCol \in {<<>>, K_id}
    /\ docxLoops \in LoopLists
    /\ hpc = "idle"
    /\ mappedData = <<>>
    /\ finalData = <<>>

\* page.tsx:113: nothing to generate from.
HandleGenerateNoRows ==
    /\ hpc = "idle"
    /\ ButtonEnabled
    /\ Len(csvData) = 0
    /\ hpc' = "returned"
    /\ UNCHANGED <<csvData, mapping, enableGrouping, groupByCol, docxLoops,
                   mappedData, finalData>>
    /\ UNCHANGED outsideTransform

\* page.tsx:112-151: the rows are mapped, then grouped when grouping applies.
HandleGenerate ==
    /\ hpc = "idle"
    /\ ButtonEnabled
    /\ Len(csvData) > 0
    /\ LET mapped == [n \in 1..Len(csvData) |-> mapRow(csvData[n], mapping)]
           grouped == GroupRows(csvData, mapped, groupByCol, 1, <<>>)
       IN  /\ mappedData' = mapped
           /\ IF ~GroupingApplies
              THEN finalData' = mapped /\ hpc' = "sent"
              ELSE IF grouped.thrown
              THEN finalData' = <<>> /\ hpc' = "caught"
              ELSE finalData' = RootContexts(grouped.groups, docxLoops) /\ hpc' = "sent"
    /\ UNCHANGED <<csvData, mapping, enableGrouping, groupByCol, docxLoops>>
    /\ UNCHANGED outsideTransform

\* No request in the server while the page's transformation is examined.
ServerIdle ==
    /\ req = [form |-> "missing", data |-> <<>>, mapping |-> <<>>,
              deliveryMethod |-> "download", email |-> <<>>]
    /\ pc = "idle"
    /\ idx = 0
    /\ result = <<>>
    /\ tempDir = "none"
    /\ files = {}
    /\ finalZip = <<>>
    /\ content = <<>>
    /\ env = UnreadEnv
    /\ uploads = 0
    /\ sends = 0
    /\ sentFrom = "nobody"
    /\ resp = "none"
    /\ stored = NothingStored
    /\ link = FALSE
    /\ sendResult = "none"
    /\ respBody = NoBody

InitTransform == PageInit /\ ServerIdle /\ AnalyzeIdle /\ UiIdle /\ PoolIdle

NextTransform ==
    \/ HandleGenerateNoRows
    \/ HandleGenerate

SpecTransform == InitTransform /\ [][NextTransform]_vars

\* ------------------------------------------------------ the analysis route
MaxTokens == 3

\* \s and [\w\d_\-] of the two patterns.
WsChars == {" ", "\t", "\n"}
IdentChars == LowerChars \cup UpperChars \cup DigitChars \cup {"_", "-"}

\* The index after the longest run of characters of C that starts at i.
RECURSIVE SkipClass(_, _, _)
SkipClass(t, i, C) ==
    IF i <= Len(t) /\ t[i] \in C THEN SkipClass(t, i + 1, C) ELSE i

NoMatch == [end |-> 0, id |-> <<>>]

\* One attempt of /%(?![#/])\s*([\w\d_\-]+)\s*%/ at position i: the index
\* after the match and the captured identifier.  The three classes and the
\* delimiter are disjoint, so the greedy match is the only one.
VarMatch(t, i) ==
    IF t[i] # "%" \/ (i + 1 <= Len(t) /\ t[i + 1] \in {"#", "/"})
    THEN NoMatch
    ELSE LET j == SkipClass(t, i + 1, WsChars)
             k == SkipClass(t, j, IdentChars)
             l == SkipClass(t, k, WsChars)
         IN  IF k > j /\ l <= Len(t) /\ t[l] = "%"
             THEN [end |-> l + 1, id |-> SubSeq(t, j, k - 1)]
             ELSE NoMatch

\* One attempt of /(?:\{|%)\s*#\s*([\w\d_\-]+)\s*(?:\}|%)/ at position i.
LoopMatch(t, i) ==
    IF t[i] \notin {"{", "%"}
    THEN NoMatch
    ELSE LET h == SkipClass(t, i + 1, WsChars)
             j == SkipClass(t, h + 1, WsChars)
             k == SkipClass(t, j, IdentChars)
             l == SkipClass(t, k, WsChars)
         IN  IF /\ h <= Len(t) /\ t[h] = "#"
                /\ k > j /\ l <= Len(t) /\ t[l] \in {"}", "%"}
             THEN [end |-> l + 1, id |-> SubSeq(t, j, k - 1)]
             ELSE NoMatch

\* Set.add, the set kept as the list Array.from gives (insertion order).
AddOnce(list, x) ==
    IF \E n \in 1..Len(list) : list[n] = x THEN list ELSE Append(list, x)

\* while ((match = varRegex.exec(text)) !== null) placeholders.add(match[1]):
\* the global pattern resumes at the end of the last match.
RECURSIVE VarScan(_, _, _)
VarScan(t, i, acc) ==
    IF i > Len(t) THEN acc
    ELSE LET m == VarMatch(t, i)
         IN  IF m.end = 0 THEN VarScan(t, i + 1, acc)
             ELSE VarScan(t, m.end, AddOnce(acc, m.id))

RECURSIVE LoopScan(_, _, _)
LoopScan(t, i, acc) ==
    IF i > Len(t) THEN acc
    ELSE LET m == LoopMatch(t, i)
         IN  IF m.end = 0 THEN LoopScan(t, i + 1, acc)
             ELSE LoopScan(t, m.end, AddOnce(acc, m.id))

\* The pieces a template's text is made of: field markers (bare and padded),
\* loop markers in both bracket styles, a closing marker and a plain word.
Tokens ==
    { [kind |-> "field", id |-> <<"a">>, chars |-> <<"%", "a", "%">>],
      [kind |-> "field", id |-> <<"a">>, chars |-> <<"%", " ", "a", " ", "%">>],
      [kind |-> "field", id |-> <<"b">>, chars |-> <<"%", "b", "%">>],
      [kind |-> "loop", id |-> <<"l">>, chars |-> <<"{", "#", "l", "}">>],
      [kind |-> "loop", id |-> <<"l">>, chars |-> <<"%", "#", "l", "%">>],
      [kind |-> "close", id |-> <<"l">>, chars |-> <<"%", "/", "l", "%">>],
      [kind |-> "word", id |-> <<>>, chars |-> <<"x">>] }

Templates ==
    {[file |-> FALSE, wellFormed |-> FALSE, tokens |-> <<>>]}
        \cup [file : {TRUE}, wellFormed : BOOLEAN,
              tokens : SeqsUpTo(Tokens, MaxTokens)]

\* doc.getFullText(): the pieces one after the other.
RECURSIVE FullText(_)
FullText(tokens) ==
    IF tokens = <<>> THEN <<>>
    ELSE tokens[1].chars \o FullText(Tail(tokens))

AnalyzeInit ==
    /\ template \in Templates
    /\ text = <<>>
    /\ apc = "start"
    /\ analysis = NoAnalysis

\* part_001:52-54
AnalyzeNoFile ==
    /\ apc = "start"
    /\ ~template.file
    /\ analysis' = [status |-> 400, placeholders |-> <<>>, loops |-> <<>>]
    /\ apc' = "done"
    /\ UNCHANGED <<template, text>>
    /\ UNCHANGED outsideAnalyze

\* part_001:57-62, 86-92: the container cannot be opened.
AnalyzeThrows ==
    /\ apc = "start"
    /\ template.file /\ ~template.wellFormed
    /\ analysis' = [status |-> 500, placeholders |-> <<>>, loops |-> <<>>]
    /\ apc' = "done"
    /\ UNCHANGED <<template, text>>
    /\ UNCHANGED outsideAnalyze

\* part_001:56-85
Analyze ==
    /\ apc = "start"
    /\ template.file /\ template.wellFormed
    /\ LET t == FullText(template.tokens)
       IN  /\ text' = t
           /\ analysis' = [status |-> 200,
                           placeholders |-> VarScan(t, 1, <<>>),
                           loops |-> LoopScan(t, 1, <<>>)]
    /\ apc' = "done"
    /\ UNCHANGED template
    /\ UNCHANGED outsideAnalyze

InitAnalyze == AnalyzeInit /\ ServerIdle /\ PageIdle /\ UiIdle /\ PoolIdle

NextAnalyze ==
    \/ AnalyzeNoFile
    \/ AnalyzeThrows
    \/ Analyze

SpecAnalyze == InitAnalyze /\ [][NextAnalyze]_vars

\* ---------------------------------------------------- the page's handlers
MaxInFlight == 2
MaxParses == 1

LowerSeq == <<"a","b","c","d","e","f","g","h","i","j","k","l","m",
              "n","o","p","q","r","s","t","u","v","w","x","y","z">>
UpperSeq == <<"A","B","C","D","E","F","G","H","I","J","K","L","M",
              "N","O","P","Q","R","S","T","U","V","W","X","Y","Z">>

\* String.prototype.toLowerCase on the letters A-Z.
ToLowerCase(str) ==
    [n \in 1..Len(str) |->
        IF str[n] \in UpperChars
        THEN LowerSeq[CHOOSE m \in 1..26 : UpperSeq[m] = str[n]]
        ELSE str[n]]

\* { [k]: v } and the copy of one property by a spread: an own property is
\* defined, whatever the key.
DefineOwn(o, k, v) ==
    IF HasOwn(o, k) THEN [o EXCEPT ![OwnIndex(o, k)] = <<k, v>>]
    ELSE LET at == InsertAt(o, k)
         IN  SubSeq(o, 1, at - 1) \o << <<k, v>> >> \o SubSeq(o, at, Len(o))

\* { ...prev, ...more }
RECURSIVE Spread(_, _)
Spread(prev, more) ==
    IF more = <<>> THEN prev
    ELSE Spread(DefineOwn(prev, more[1][1], more[1][2]), Tail(more))

\* page.tsx:96: fields.find(h => h.toLowerCase() === ph.toLowerCase())
FindHeader(headers, ph) ==
    LET hits == {n \in 1..Len(headers) : ToLowerCase(headers[n]) = ToLowerCase(ph)}
    IN  IF hits = {} THEN Undefined
        ELSE Str(headers[CHOOSE n \in hits : \A m \in hits : n <= m])

\* page.tsx:93-98: the forEach that fills initialMapping.
RECURSIVE AutoMap(_, _, _)
AutoMap(phs, headers, acc) ==
    IF phs = <<>> THEN acc
    ELSE LET match == FindHeader(headers, phs[1])
         IN  AutoMap(Tail(phs), headers,
                     IF Truthy(match) THEN Set(acc, phs[1], match) ELSE acc)

\* What the analysis answers for the documents a user may select: one with a
\* field and a loop, one with another field and no loop.
DocCatalog ==
    << [placeholders |-> <<K_name>>, loops |-> <<K_items>>],
       [placeholders |-> <<K_course>>, loops |-> <<>>] >>

\* What Papa.parse gives for the data file a user may select: one column,
\* whose header matches the field name up to case.
CsvCatalog ==
    << [fields |-> <<K_Name>>,
        data |-> << << <<K_Name, Str(<<"A">>)>> >> >>] >>

Range(list) == {list[n] : n \in 1..Len(list)}

\* page.tsx:189
isReady ==
    /\ docxFile # 0
    /\ csvFile # 0
    /\ Len(docxPlaceholders) > 0
    /\ Len(Keys(mapping)) > 0

\* A validity test that lets every state through.
isGroupingValidAlways == TRUE

\* page.tsx:190
isGroupingValid == ~enableGrouping \/ (enableGrouping /\ groupByCol # <<>>)

\* page.tsx:191
isDeliveryValid ==
    \/ deliveryMethod = "download"
    \/ (deliveryMethod = "email" /\ Includes(email, "@"))

\* page.tsx:390: disabled={...}
GenerateDisabled ==
    ~isReady \/ generating \/ ~isGroupingValid \/ ~isDeliveryValid

\* page.tsx:82: Papa.parse(csvFile, {...}); its callbacks run later.  The
\* placeholder list is the one the callback's closure holds.
StartParse(file, phs) ==
    /\ parses' = parses \cup {[csv |-> file, placeholders |-> phs]}
    /\ Cardinality(parses') <= MaxParses

\* The addresses typed into the address input: none, or a valid one.
PageEmails == {<<>>, <<"a", "@", "b">>}

\* page.tsx:75-106: the effect on [csvFile, docxPlaceholders], run with the
\* placeholder list phs the render gave it.
ParseCsvEffect(phs) ==
    IF csvFile = 0
    THEN /\ csvHeaders' = <<>>
         /\ csvData' = <<>>
         /\ UNCHANGED parses
    ELSE /\ StartParse(csvFile, phs)
         /\ UNCHANGED <<csvHeaders, csvData>>

\* The fetches of page.tsx:46 that have not answered yet.
InFlight ==
    staleFetches[1] + staleFetches[2] + (IF currentFetch = "pending" THEN 1 ELSE 0)

\* A File stops being the selected one: its fetch, if still out, goes on.
Superseded ==
    IF currentFetch = "pending"
    THEN [staleFetches EXCEPT ![docxFile] = staleFetches[docxFile] + 1]
    ELSE staleFetches

\* FileUploader setFile (part_000:22-44) and the effect of page.tsx:34-72 up
\* to the fetch: a new File is selected or dropped.
SelectDocx ==
    /\ InFlight < MaxInFlight
    /\ \E d \in 1..Len(DocCatalog) : docxFile' = d
    /\ staleFetches' = Superseded
    /\ currentFetch' = "pending"
    /\ analyzing' = TRUE
    /\ UNCHANGED <<csvFile, docxPlaceholders, csvHeaders, deliveryMethod, email,
                   generating, parses>>
    /\ UNCHANGED <<csvData, mapping, enableGrouping, groupByCol, docxLoops>>
    /\ UNCHANGED outsidePage

\* FileUploader's remove button, then page.tsx:35-39 and the data effect
\* the new placeholder list triggers.
ClearDocx ==
    /\ docxFile # 0
    /\ docxFile' = 0
    /\ staleFetches' = Superseded
    /\ currentFetch' = "none"
    /\ docxPlaceholders' = <<>>
    /\ docxLoops' = <<>>
    /\ ParseCsvEffect(<<>>)
    /\ UNCHANGED <<csvFile, deliveryMethod, email, analyzing, generating>>
    /\ UNCHANGED <<mapping, enableGrouping, groupByCol>>
    /\ UNCHANGED outsidePage

\* page.tsx:51-62: what a successful response does to the page, whichever
\* File it was asked for.
ApplyAnalysis(data) ==
    /\ docxPlaceholders' = data.placeholders
    /\ docxLoops' = data.loops
    /\ enableGrouping' = IF Len(data.loops) > 0 THEN TRUE ELSE enableGrouping
    /\ ParseCsvEffect(data.placeholders)
    /\ analyzing' = FALSE
    /\ UNCHANGED <<docxFile, csvFile, deliveryMethod, email, generating>>
    /\ UNCHANGED <<mapping, groupByCol>>
    /\ UNCHANGED outsidePage

\* page.tsx:51-68: the response for the selected File is read.
AnalysisArrives ==
    /\ currentFetch = "pending"
    /\ currentFetch' = "ok"
    /\ ApplyAnalysis(DocCatalog[docxFile])
    /\ UNCHANGED staleFetches

\* page.tsx:51-68: the response for a File selected earlier is read.
StaleAnalysisArrives ==
    \E d \in 1..Len(DocCatalog) :
        /\ staleFetches[d] > 0
        /\ staleFetches' = [staleFetches EXCEPT ![d] = staleFetches[d] - 1]
        /\ ApplyAnalysis(DocCatalog[d])
        /\ UNCHANGED currentFetch

\* page.tsx:49, 63-68: the fetch rejects or the route answers an error, for
\* the selected File or for an earlier one.
AnalysisFails ==
    /\ \/ /\ currentFetch = "pending"
          /\ currentFetch' = "failed"
          /\ UNCHANGED staleFetches
       \/ /\ \E d \in 1..Len(DocCatalog) :
                /\ staleFetches[d] > 0
                /\ staleFetches' = [staleFetches EXCEPT ![d] = staleFetches[d] - 1]
          /\ UNCHANGED currentFetch
    /\ analyzing' = FALSE
    /\ UNCHANGED <<docxFile, csvFile, docxPlaceholders, csvHeaders,
                   deliveryMethod, email, generating, parses>>
    /\ UNCHANGED <<csvData, mapping, enableGrouping, groupByCol, docxLoops>>
    /\ UNCHANGED outsidePage

\* FileUploader setFile, then page.tsx:82: Papa.parse is started.
SelectCsv ==
    /\ \E c \in 1..Len(CsvCatalog) :
          /\ csvFile' = c
          /\ StartParse(c, docxPlaceholders)
    /\ UNCHANGED <<docxFile, docxPlaceholders, csvHeaders, deliveryMethod, email,
                   analyzing, generating, staleFetches, currentFetch>>
    /\ UNCHANGED <<csvData, mapping, enableGrouping, groupByCol, docxLoops>>
    /\ UNCHANGED outsidePage

\* FileUploader's remove button, then page.tsx:76-80.
ClearCsv ==
    /\ csvFile # 0
    /\ csvFile' = 0
    /\ csvHeaders' = <<>>
    /\ csvData' = <<>>
    /\ UNCHANGED <<docxFile, docxPlaceholders, deliveryMethod, email, analyzing,
                   generating, staleFetches, currentFetch, parses>>
    /\ UNCHANGED <<mapping, enableGrouping, groupByCol, docxLoops>>
    /\ UNCHANGED outsidePage

\* page.tsx:85-100: the complete callback, with the placeholder list of the
\* render that started the parse.
ParseCompletes ==
    \E p \in parses :
        /\ parses' = parses \ {p}
        /\ csvHeaders' = CsvCatalog[p.csv].fields
        /\ csvData' = CsvCatalog[p.csv].data
        /\ mapping' =
              IF Len(p.placeholders) > 0
              THEN Spread(mapping,
                          AutoMap(p.placeholders, CsvCatalog[p.csv].fields, <<>>))
              ELSE mapping
        /\ UNCHANGED <<docxFile, csvFile, docxPlaceholders, deliveryMethod, email,
                       analyzing, generating, staleFetches, currentFetch>>
        /\ UNCHANGED <<enableGrouping, groupByCol, docxLoops>>
        /\ UNCHANGED outsidePage

\* page.tsx:101-104: the error callback.
ParseFails ==
    \E p \in parses :
        /\ parses' = parses \ {p}
        /\ UNCHANGED <<docxFile, csvFile, docxPlaceholders, csvHeaders,
                       deliveryMethod, email, analyzing, generating, staleFetches,
                       currentFetch>>
        /\ UNCHANGED <<csvData, mapping, enableGrouping, groupByCol, docxLoops>>
        /\ UNCHANGED outsidePage

\* page.tsx:108-110, offered by the selects of page.tsx:251-270.
HandleMappingChange ==
    /\ Len(docxPlaceholders) > 0 /\ Len(csvHeaders) > 0
    /\ \E placeholder \in Range(docxPlaceholders) :
       \E csvHeader \in {<<>>} \cup Range(csvHeaders) :
          mapping' = DefineOwn(mapping, placeholder, Str(csvHeader))
    /\ UNCHANGED uiVars
    /\ UNCHANGED <<csvData, enableGrouping, groupByCol, docxLoops>>
    /\ UNCHANGED outsidePage

\* page.tsx:280, 290: the toggle, shown when there are loops and headers.
ToggleGrouping ==
    /\ Len(docxLoops) > 0 /\ Len(csvHeaders) > 0
    /\ enableGrouping' = ~enableGrouping
    /\ UNCHANGED uiVars
    /\ UNCHANGED <<csvData, mapping, groupByCol, docxLoops>>
    /\ UNCHANGED outsidePage

\* page.tsx:295-311: the group column select, shown when grouping is on.
SetGroupByCol ==
    /\ Len(docxLoops) > 0 /\ Len(csvHeaders) > 0
    /\ enableGrouping
    /\ \E h \in {<<>>} \cup Range(csvHeaders) : groupByCol' = h
    /\ UNCHANGED uiVars
    /\ UNCHANGED <<csvData, mapping, enableGrouping, docxLoops>>
    /\ UNCHANGED outsidePage

\* page.tsx:319-347: the delivery radios.
SetDeliveryMethod ==
    /\ isReady /\ isGroupingValid
    /\ \E m \in {"download", "email"} : deliveryMethod' = m
    /\ UNCHANGED <<docxFile, csvFile, docxPlaceholders, csvHeaders, email,
                   analyzing, generating, staleFetches, currentFetch, parses>>
    /\ UNCHANGED <<csvData, mapping, enableGrouping, groupByCol, docxLoops>>
    /\ UNCHANGED outsidePage

\* page.tsx:358-368: the address input.
SetEmail ==
    /\ isReady /\ isGroupingValid
    /\ deliveryMethod = "email"
    /\ \E e \in PageEmails : email' = e
    /\ UNCHANGED <<docxFile, csvFile, docxPlaceholders, csvHeaders,
                   deliveryMethod, analyzing, generating, staleFetches,
                   currentFetch, parses>>
    /\ UNCHANGED <<csvData, mapping, enableGrouping, groupByCol, docxLoops>>
    /\ UNCHANGED outsidePage

\* page.tsx:112-117, 389-390: the button is pressed and handleGenerate runs
\* up to its fetch.
ClickGenerate ==
    /\ ~GenerateDisabled
    /\ docxFile # 0 /\ Len(csvData) > 0
    /\ generating' = TRUE
    /\ UNCHANGED <<docxFile, csvFile, docxPlaceholders, csvHeaders,
                   deliveryMethod, email, analyzing, staleFetches, currentFetch, parses>>
    /\ UNCHANGED <<csvData, mapping, enableGrouping, groupByCol, docxLoops>>
    /\ UNCHANGED outsidePage

\* page.tsx:160-186: the response, or the catch; then finally.
GenerateSettles ==
    /\ generating
    /\ generating' = FALSE
    /\ UNCHANGED <<docxFile, csvFile, docxPlaceholders, csvHeaders,
                   deliveryMethod, email, analyzing, staleFetches, currentFetch, parses>>
    /\ UNCHANGED <<csvData, mapping, enableGrouping, groupByCol, docxLoops>>
    /\ UNCHANGED outsidePage

InitPage == UiIdle /\ PageIdle /\ ServerIdle /\ AnalyzeIdle /\ PoolIdle

NextPage ==
    \/ SelectDocx
    \/ ClearDocx
    \/ AnalysisArrives
    \/ StaleAnalysisArrives
    \/ AnalysisFails
    \/ SelectCsv
    \/ ClearCsv
    \/ ParseCompletes
    \/ ParseFails
    \/ HandleMappingChange
    \/ ToggleGrouping
    \/ SetGroupByCol
    \/ SetDeliveryMethod
    \/ SetEmail
    \/ ClickGenerate
    \/ GenerateSettles

SpecPage == InitPage /\ [][NextPage]_vars

\* ------------------------------------------- two requests side by side
MaxItems == 2

\* The names mkdtemp can give: 'certifier-' and a random suffix.
DirNames == {"certifier-a", "certifier-b", "certifier-c"}

\* A choice among all names, taken or not.
AnyDir(existing) == DirNames

\* route.ts:42: mkdtemp creates a directory that did not exist.
FreshDirs(existing) == DirNames \ existing

\* route.ts:109-111: await processItem(...) - the next iteration, and the
\* code after the loop, wait for the conversion of this request to end.
LoopReady(r) == \A c \in inflight : c.req # r

PoolInit ==
    /\ runState = [r \in Clients |-> "start"]
    /\ items \in [Clients -> 1..MaxItems]
    /\ tempDirOf = [r \in Clients |-> "none"]
    /\ nextItem = [r \in Clients |-> 0]
    /\ inflight = {}
    /\ dirs = {}

\* route.ts:17-42: the request is validated and gets its directory.
Mkdtemp ==
    \E r \in Clients :
        /\ runState[r] = "start"
        /\ \E d \in FreshDirs(dirs) :
              /\ tempDirOf' = [tempDirOf EXCEPT ![r] = d]
              /\ dirs' = dirs \cup {d}
        /\ runState' = [runState EXCEPT ![r] = "run"]
        /\ nextItem' = [nextItem EXCEPT ![r] = 1]
        /\ UNCHANGED <<items, inflight>>
        /\ UNCHANGED outsidePool

\* route.ts:45-81: the item is rendered and written, and the converter is
\* started with the request's directory as output directory and as the home
\* of its profile.
StartConvert ==
    \E r \in Clients :
        /\ runState[r] = "run"
        /\ nextItem[r] <= items[r]
        /\ LoopReady(r)
        /\ inflight' = inflight \cup
              {[req |-> r, item |-> nextItem[r], dir |-> tempDirOf[r]]}
        /\ nextItem' = [nextItem EXCEPT ![r] = nextItem[r] + 1]
        /\ UNCHANGED <<runState, items, tempDirOf, dirs>>
        /\ UNCHANGED outsidePool

\* route.ts:81-104: the converter exits; the item is collected.
ConvertDone ==
    \E c \in inflight :
        /\ inflight' = inflight \ {c}
        /\ UNCHANGED <<runState, items, tempDirOf, nextItem, dirs>>
        /\ UNCHANGED outsidePool

\* route.ts:81, 216-222: the converter fails; the request ends with the
\* directory left behind.
ConvertFails ==
    \E c \in inflight :
        /\ inflight' = inflight \ {c}
        /\ runState' = [runState EXCEPT ![c.req] = "failed"]
        /\ UNCHANGED <<items, tempDirOf, nextItem, dirs>>
        /\ UNCHANGED outsidePool

\* route.ts:114-120: after the loop the archive is sealed and the directory
\* removed.
Finish ==
    \E r \in Clients :
        /\ runState[r] = "run"
        /\ nextItem[r] > items[r]
        /\ LoopReady(r)
        /\ dirs' = dirs \ {tempDirOf[r]}
        /\ runState' = [runState EXCEPT ![r] = "done"]
        /\ UNCHANGED <<items, tempDirOf, nextItem, inflight>>
        /\ UNCHANGED outsidePool

InitPool == PoolInit /\ ServerIdle /\ PageIdle /\ AnalyzeIdle /\ UiIdle

NextPool ==
    \/ Mkdtemp
    \/ StartConvert
    \/ ConvertDone
    \/ ConvertFails
    \/ Finish

SpecPool == InitPool /\ [][NextPool]_vars

\* ---------------------------------------------------------------- claims
Failed(n) == result[n] \in {"bind_throw", "exec_throw", "no_pdf"}
InArchive(zip, n) == \E m \in 1..Len(zip) : zip[m][2] = n
Responded == pc = "done"
RunStarted == tempDir # "none"

\* C1: a failure while processing one context (binding throws, the converter
\* exits with an or the converted file is missing) does not abort the
\* run: when the response is returned every later context has been processed
\* and the artifact of every context that succeeded is in the archive.
C1_FailureIsolated ==
    (Responded /\ RunStarted) =>
        \A n \in 1..Len(req.data) :
            Failed(n) =>
                /\ \A m \in (n + 1)..Len(req.data) : result[m] # "pending"
                /\ \A m \in 1..Len(req.data) : result[m] = "ok" => InArchive(content, m)

\* C2: a request that created its temporary working directory has removed
\* it when its response is returned, on every exit path.
C2_TempDirRemoved ==
    (Responded /\ RunStarted) => tempDir = "removed"

\* C3: the temporary input document and the converted output of a context
\* exist only while that context is being processed: both are gone when its
\* processing ends, however the conversion ended.
C3_ItemFilesDeleted ==
    \A f \in files : pc \in {"converting", "collect"} /\ f.item = idx

\* C4: when all N contexts rendered and converted, the archive holds exactly
\* N entries with pairwise different names.
C4_ArchiveHasAllEntries ==
    (tempDir = "removed" /\ \A n \in 1..Len(req.data) : result[n] = "ok") =>
        /\ Len(content) = Len(req.data)
        /\ \A a, b \in 1..Len(content) : content[a][1] = content[b][1] => a = b

\* C5: an email request whose recipient is non-empty and holds no '@' is
\* refused before any network call: no upload, no send, an error response.
C5_BadAddressRejected ==
    (req.deliveryMethod = "email" /\ req.email # <<>> /\ ~Includes(req.email, "@")) =>
        /\ uploads = 0
        /\ sends = 0
        /\ Responded => resp \notin {"email_sent_200", "zip_200"}

RequiredConfig ==
    {"R2_ACCOUNT_ID", "R2_ACCESS_KEY_ID", "R2_SECRET_ACCESS_KEY",
     "R2_BUCKET_NAME", "RESEND_API_KEY"}
AnyAbsent(e) == \E k \in RequiredConfig : ~e[k]

\* C6: in email mode, when any of the account id, access key id, secret
\* access key, bucket name or email-service key is absent, the response is
\* the configuration error and nothing was uploaded or sent; an upload is
\* started only after the check found all five present.
C6_ConfigCheckedBeforeUpload ==
    /\ (env.read /\ AnyAbsent(env)) =>
           /\ Responded /\ resp = "config_500"
           /\ uploads = 0 /\ sends = 0
    /\ (uploads > 0 \/ sends > 0 \/ pc \in {"upload", "presign", "send"}) =>
           env.read /\ ~AnyAbsent(env)
    /\ resp = "config_500" => req.deliveryMethod = "email" /\ AnyAbsent(env)

C6_Witness ==
    /\ req.deliveryMethod = "email"
    /\ env.read /\ ~env.RESEND_API_KEY /\ env.R2_BUCKET_NAME
    /\ resp = "config_500"
    /\ tempDir = "removed"

\* C7 as stated: with the sender address alone absent, the request fails
\* with the configuration error and no email is sent.
C7_SenderRequired ==
    (env.read /\ ~env.SENDER_EMAIL /\ ~AnyAbsent(env)) =>
        /\ sends = 0
        /\ Responded => resp = "config_500"

\* C7 as amended: the five storage and email-service values are required,
\* the sender address is not: with the sender address alone absent no
\* configuration error is raised and the email goes out from the default
\* address onboarding@resend.dev.
C7_SenderDefaults ==
    /\ (env.read /\ AnyAbsent(env)) => resp = "config_500" /\ sends = 0
    /\ (env.read /\ ~AnyAbsent(env)) => resp # "config_500"
    /\ sends > 0 =>
           sentFrom = IF env.SENDER_EMAIL THEN "SENDER_EMAIL"
                      ELSE "onboarding@resend.dev"

C7_Witness ==
    /\ env.read /\ ~env.SENDER_EMAIL /\ ~AnyAbsent(env)
    /\ sends > 0
    /\ resp = "email_sent_200"

\* The raw group key of a row: the value of the group-by header.
RawKey(row) == Get(row, groupByCol)

RECURSIVE FirstOccurrences(_, _)
\* The distinct raw group keys of the rows, in order of first occurrence.
FirstOccurrences(rows, seen) ==
    IF rows = <<>> THEN seen
    ELSE IF \E m \in 1..Len(seen) : seen[m] = RawKey(Head(rows))
    THEN FirstOccurrences(Tail(rows), seen)
    ELSE FirstOccurrences(Tail(rows), Append(seen, RawKey(Head(rows))))

FirstKeys == FirstOccurrences(csvData, <<>>)

RECURSIVE Members(_, _)
\* The mapped rows of the rows from position n on whose raw key is key, in
\* row order.
Members(key, n) ==
    IF n > Len(csvData) THEN <<>>
    ELSE IF RawKey(csvData[n]) = key
    THEN <<mappedData[n]>> \o Members(key, n + 1)
    ELSE Members(key, n + 1)

Generated == hpc \in {"sent", "caught"}
LoopSet == {docxLoops[n] : n \in 1..Len(docxLoops)}

\* C8: when grouping is applied, the n-th root context emitted is the one of
\* the n-th group key in order of first occurrence in the rows, and its loop
\* holds that group's rows in their original order.
C8_GroupsInFirstOccurrenceOrder ==
    (hpc = "sent" /\ GroupingApplies) =>
        \A n \in 1..Len(finalData) :
            /\ n <= Len(FirstKeys)
            /\ Get(finalData[n], docxLoops[1]) = Arr(Members(FirstKeys[n], 1))

\* C9: when grouping is applied, one root context is emitted for each
\* distinct group key and no other; it has the scalar fields of the first
\* mapped row of its group, and every loop name holds the mapped rows of the
\* group.
C9_OneRootPerGroup ==
    (Generated /\ GroupingApplies) =>
        /\ hpc = "sent"
        /\ Len(finalData) = Len(FirstKeys)
        /\ \A k \in 1..Len(FirstKeys) :
              \E n \in 1..Len(finalData) :
                 LET members == Members(FirstKeys[k], 1)
                 IN  /\ \A l \in LoopSet : Get(finalData[n], l) = Arr(members)
                     /\ \A f \in KeySet(members[1]) \ LoopSet :
                           Get(finalData[n], f) = Get(members[1], f)
                     /\ KeySet(finalData[n]) = KeySet(members[1]) \cup LoopSet

\* C10: mapRow never fails; the context of a row has exactly the mapping's
\* keys, each with the row's value under the mapped header when the row has
\* that header with a non-empty value, and the empty string otherwise.
C10_MapRowExact ==
    Generated =>
        /\ Len(mappedData) = Len(csvData)
        /\ \A n \in 1..Len(csvData) :
              /\ KeySet(mappedData[n]) = KeySet(mapping)
              /\ \A j \in 1..Len(mapping) :
                    LET header == mapping[j][2].s
                        present == /\ HasOwn(csvData[n], header)
                                   /\ Get(csvData[n], header) # Str(<<>>)
                    IN  Get(mappedData[n], mapping[j][1]) =
                            IF present THEN Get(csvData[n], header) ELSE Str(<<>>)

\* C11: the entries of the archive are in the order of the contexts that
\* produced them: of two entries, the one of the earlier context comes first.
C11_ArchiveInContextOrder ==
    tempDir = "removed" =>
        \A a, b \in 1..Len(content) : a < b => content[a][2] < content[b][2]

\* C12: a download request uploads nothing and sends no email on any path
\* (it does not even read the delivery configuration), and its successful
\* response is the generated archive with content type application/zip and
\* the fixed attachment file name.
C12_DownloadHasNoSideEffects ==
    req.deliveryMethod = "download" =>
        /\ uploads = 0 /\ sends = 0
        /\ ~stored.present /\ ~link /\ ~env.read
        /\ resp \notin {"email_sent_200", "email_failed_500", "config_500"}
        /\ resp = "zip_200" =>
              /\ respBody.body = finalZip
              /\ respBody.contentType = "application/zip"
              /\ respBody.disposition = "attachment; filename=\"certificates.zip\""

C12_Witness ==
    /\ req.deliveryMethod = "download"
    /\ resp = "zip_200"
    /\ Len(respBody.body) = 2

\* C13: in email mode the upload comes first, then the link, then the send:
\* a link is minted only for a stored archive and an email is sent only with
\* a link; the success response needs the archive stored and a send that
\* reported no error; a failed upload sends nothing and answers an error; a
\* failed send answers an error and leaves the object stored.
C13_UploadLinkSend ==
    /\ link => stored.present /\ stored.body = content
    /\ sends > 0 => link
    /\ pc = "send" => link
    /\ resp = "email_sent_200" =>
           stored.present /\ link /\ sends = 1 /\ sendResult = "ok"
    /\ (uploads > 0 /\ ~stored.present) =>
           sends = 0 /\ Responded /\ resp = "failed_500"
    /\ sendResult = "error" => resp = "email_failed_500" /\ stored.present
    /\ sendResult = "threw" => resp = "failed_500" /\ stored.present

C13_Witness ==
    /\ sendResult = "error"
    /\ resp = "email_failed_500"
    /\ stored.present /\ Len(stored.body) > 0

Count(list, x) == Cardinality({n \in 1..Len(list) : list[n] = x})

TokenIds(kind) ==
    {template.tokens[n].id :
        n \in {m \in 1..Len(template.tokens) : template.tokens[m].kind = kind}}

\* C14: a successful analysis lists every field identifier of the template
\* exactly once in placeholders and every loop identifier exactly once in
\* loops, however often and in whichever bracket style they occur.
C14_EachIdentifierOnce ==
    analysis.status = 200 =>
        /\ \A f \in TokenIds("field") : Count(analysis.placeholders, f) = 1
        /\ \A l \in TokenIds("loop") : Count(analysis.loops, l) = 1

\* C15 (as stated): in every state of the page a group-by header is chosen
\* if and only if grouping is enabled.
C15_HeaderIffEnabled == (groupByCol # <<>>) <=> enableGrouping

\* C15 (amended): a generation is started only when grouping is disabled or
\* a group-by header is chosen.
C15_GenerationNeedsHeader ==
    [][(generating' /\ ~generating) => (enableGrouping => groupByCol # <<>>)]_vars

C15_Witness == generating /\ enableGrouping /\ groupByCol # <<>>

\* C16: when the analysis of the selected template has failed, the page holds
\* no field and no loop, and the generate button is disabled.
C16_FailedAnalysisLeavesNothing ==
    (docxFile # 0 /\ currentFetch = "failed") =>
        /\ docxPlaceholders = <<>>
        /\ docxLoops = <<>>
        /\ GenerateDisabled

\* C18: every key of the mapping is a field of the analyzed template and
\* every non-empty value is a header of the loaded data file.
C18_MappingIsCurrent ==
    \A n \in 1..Len(mapping) :
        /\ mapping[n][1] \in Range(docxPlaceholders)
        /\ mapping[n][2].s # <<>> => mapping[n][2].s \in Range(csvHeaders)

\* C19: the analyzing indicator is on while the analysis of the selected
\* template is in flight, and once every response has arrived the lists are
\* those of the template selected last.
C19_LatestSelectionWins ==
    /\ currentFetch = "pending" => analyzing
    /\ (currentFetch = "ok" /\ InFlight = 0) =>
           /\ docxPlaceholders = DocCatalog[docxFile].placeholders
           /\ docxLoops = DocCatalog[docxFile].loops

\* C20: with a template without loops, a data file, a field, a non-empty
\* mapping, download delivery and no generation running, the generate
\* button is enabled.
C20_NoLoopsNeverBlocked ==
    ( /\ docxFile # 0 /\ csvFile # 0
      /\ Len(docxLoops) = 0
      /\ Len(docxPlaceholders) > 0
      /\ Len(Keys(mapping)) > 0
      /\ deliveryMethod = "download"
      /\ ~generating ) => ~GenerateDisabled

\* C17: two conversions in flight never share a working directory (and so
\* never a converter profile, which lies inside it): a request has at most
\* one conversion in flight, and two requests have different directories.
C17_NoSharedWorkingDirectory ==
    \A a, b \in inflight : a # b => (a.req # b.req /\ a.dir # b.dir)

C17_Witness ==
    \E a, b \in inflight : a.req # b.req /\ a.item = 2 /\ a.dir # b.dir
====
